---- MODULE Spec2Model ----
(***************************************************************************)
(* Telemetry ingestion gateway (telemetry-service): the HTTP handlers of   *)
(* internal/handler, the log functions of internal/logger and the metric   *)
(* registry of internal/metrics, as a state machine.                       *)
(*                                                                         *)
(* One request is served by one goroutine; a request slot r holds the      *)
(* goroutine's position pc[r], its input req[r], its locals loc[r] and the *)
(* response it has written resp[r].  Besides HTTP requests the exported    *)
(* methods Metrics.RecordCustomCounter/Gauge/Histogram can be invoked      *)
(* directly by in-process code (route "call").  The package functions     *)
(* InitMetrics, GetMetrics and GetRegistry and the package variables they  *)
(* guard (singleton) are modelled from the start of the process.           *)
(*                                                                         *)
(* Library behaviour the handlers rely on is modelled by what it does:     *)
(*  - promauto constructors panic when registration fails (a descriptor    *)
(*    with a duplicate label name, or a name that is already registered);  *)
(*  - MetricVec.WithLabelValues panics when the number of values differs   *)
(*    from the number of label names, and creates the child on first use;  *)
(*  - Counter.Add panics on a negative value;                              *)
(*  - zap's Logger.Fatal writes the entry and calls os.Exit(1),            *)
(*    Logger.Panic writes the entry and panics;                            *)
(*  - net/http recovers a panicking handler: deferred calls run, the       *)
(*    connection is dropped without a response, the process lives on;      *)
(*  - ranging over a Go map visits the keys in an unspecified order.       *)
(***************************************************************************)
EXTENDS Integers, Sequences, FiniteSets, TLC

(* ------------------------------ bounds --------------------------------- *)
\* request slots: goroutines serving requests at the same time
MaxConc == 2
\* metric submissions (HTTP or direct calls) started in one behaviour
MaxMetricRequests == 2
\* log submissions (single or batch) started in one behaviour
MaxLogRequests == 2
\* entries in one batch
MaxBatch == 2
\* submissions of any kind started in one behaviour of the specification of every handler
MaxIngest == 3
\* calls of InitMetrics, GetMetrics and GetRegistry in one behaviour of the specification of the singleton
MaxCalls == 3

Reqs == 1..MaxConc

ServiceNames == {"svc"}
MetricNames == {"x", "y"}
\* "summary" stands for any metric_type that is not counter, gauge, histogram
MetricTypes == {"counter", "gauge", "histogram", "summary"}
MetricValues == {-1, 3, 5}
\* the labels maps a submission can carry (service_name aside)
LabelMaps == {<<>>, [a |-> "1"], [a |-> "2"], [b |-> "2"], [a |-> "1", b |-> "2"]}
\* the label keys of the model in lexicographic order
KeyOrder == <<"a", "b", "service_name">>

\* "verbose" stands for any level string the switch does not list
Levels == {"debug", "info", "warn", "warning", "error", "fatal", "panic", "verbose"}
\* the ways an element of a JSON body fails to decode:
\*   "type"  a field of the wrong JSON type (json.UnmarshalTypeError: the decoder
\*           saves the first one and goes on decoding),
\*   "time"  a timestamp time.Time.UnmarshalJSON rejects (decoding stops with its error)
DecodeFailures == {"type", "time"}
\* timestamps: "zero" is an absent or zero timestamp, "t1" one the client supplied,
\* "now" the gateway's clock at ingestion
ClientTimestamps == {"zero", "t1"}
Now == "now"
\* the level main passes to InitLogger: entries below it are not written
MinLevel == "info"
\* zap's severities, lowest first
SeverityOrder == <<"debug", "info", "warn", "error", "panic", "fatal">>

VARIABLES
    alive,                  \* the process is running (FALSE after os.Exit)
    mu,                     \* Metrics.mu: the slot holding it, or 0
    reg,                    \* the Prometheus registry: custom name -> kind registered
    CustomCounters,         \* Metrics.CustomCounters: name -> family
    CustomGauges,           \* Metrics.CustomGauges
    CustomHistograms,       \* Metrics.CustomHistograms
    HTTPRequestsInFlight,   \* gauge
    HTTPRequestsTotal,      \* counter vec: <<method, endpoint, status>> -> n
    HTTPRequestDuration,    \* histogram vec: <<method, endpoint>> -> observations
    LogsReceived,           \* counter vec: <<service_name, level>> -> n
    LogsProcessed,          \* counter vec: <<service_name, level>> -> n
    LogsErrors,             \* counter vec: <<service_name, error_type>> -> n
    LogBatchSize,           \* histogram: number of observations
    sink,                   \* entries written by the zap logger: <<service_name, severity>> -> n
    pc, req, loc, resp,     \* per request slot
    nMetric, nLog,          \* requests started so far
    singleton               \* package metrics: once, the pointers reg and metrics, what was created

regVars == <<reg, CustomCounters, CustomGauges, CustomHistograms>>
httpVars == <<HTTPRequestsTotal, HTTPRequestDuration>>
logVars == <<LogsReceived, LogsProcessed, LogsErrors, LogBatchSize, sink>>
vars == <<alive, mu, reg, CustomCounters, CustomGauges, CustomHistograms,
          HTTPRequestsInFlight, HTTPRequestsTotal, HTTPRequestDuration,
          LogsReceived, LogsProcessed, LogsErrors, LogBatchSize, sink,
          pc, req, loc, resp, nMetric, nLog, singleton>>

(* ------------------------------ helpers -------------------------------- *)
\* value of a vec child that may not exist yet
Val(f, k) == IF k \in DOMAIN f THEN f[k] ELSE 0
\* f with key k set to v (the key is added when new)
Upsert(f, k, v) == [x \in (DOMAIN f) \cup {k} |-> IF x = k THEN v ELSE f[x]]
\* prometheus CounterVec.WithLabelValues(k...).Inc()
Inc(f, k) == Upsert(f, k, Val(f, k) + 1)
\* the orders in which a range over a map with key set S can visit the keys
Orders(S) == {s \in [1..Cardinality(S) -> S] : \A i, j \in 1..Cardinality(S) : i # j => s[i] # s[j]}
HasDuplicates(s) == \E i, j \in 1..Len(s) : i # j /\ s[i] = s[j]
\* Go map read: the zero value "" for a missing key
MapGet(m, k) == IF k \in DOMAIN m THEN m[k] ELSE ""
\* Go delete(m, k)
MapDelete(m, k) == [x \in (DOMAIN m) \ {k} |-> m[x]]

NoReq == [route |-> "none"]
NoResp == [code |-> 0, body |-> [status |-> "none"]]
NoEntry == [service |-> "", level |-> "", ts |-> "zero", bad |-> ""]
\* the locals of a goroutine: the labels map it holds, the labelValues slice it built,
\* the entry or entries it decoded, its loop index, whether it ended by a panic, and how many of its entries it has
\* written to the sink and counted, and whether a write of the logger to its sink failed
LocInit == [labels |-> <<>>, labelValues |-> <<>>, entry |-> NoEntry, entries |-> <<>>, i |-> 0,
            panicked |-> FALSE, written |-> 0, counted |-> 0, sinkErr |-> FALSE]

StatusText(code) ==
    CASE code = 200 -> "OK"
      [] code = 400 -> "Bad Request"
      [] code = 405 -> "Method Not Allowed"
      [] code = 500 -> "Internal Server Error"

\* Handler.respondError
respondError(message, statusCode) ==
    [code |-> statusCode, body |-> [status |-> "error", error |-> message]]

\* Handler.respondSuccess
respondSuccess(data) == [code |-> 200, body |-> data]

\* the package variables of internal/metrics once main has called InitMetrics: once is
\* done, reg and metrics point to the one registry and the one Metrics (0 is nil), and the
\* built-in metrics have been registered once
Initialized ==
    [once |-> "done", reg |-> 1, metrics |-> 1, registries |-> 1, instances |-> 1, builtins |-> 1,
     calls |-> 0]

\* the package variables of internal/metrics when the process starts
Uninitialized ==
    [once |-> "new", reg |-> 0, metrics |-> 0, registries |-> 0, instances |-> 0, builtins |-> 0,
     calls |-> 0]

\* nothing recorded, no request served
Fresh ==
    /\ alive = TRUE
    /\ mu = 0
    /\ reg = <<>>
    /\ CustomCounters = <<>>
    /\ CustomGauges = <<>>
    /\ CustomHistograms = <<>>
    /\ HTTPRequestsInFlight = 0
    /\ HTTPRequestsTotal = <<>>
    /\ HTTPRequestDuration = <<>>
    /\ LogsReceived = <<>>
    /\ LogsProcessed = <<>>
    /\ LogsErrors = <<>>
    /\ LogBatchSize = 0
    /\ sink = <<>>
    /\ pc = [r \in Reqs |-> "idle"]
    /\ req = [r \in Reqs |-> NoReq]
    /\ loc = [r \in Reqs |-> LocInit]
    /\ resp = [r \in Reqs |-> NoResp]
    /\ nMetric = 0
    /\ nLog = 0

\* the state when main starts serving: logger and metrics initialized, nothing recorded
Init == Fresh /\ singleton = Initialized

\* a slot is free for a new request: never used, or its last request has ended
Free(r) == pc[r] \in {"idle", "done"}
\* a new request is served in the lowest free slot (which slot serves it is immaterial)
Slot(r) == Free(r) /\ \A q \in Reqs : q < r => ~Free(q)


\* Handler.recordHTTPMetrics
recordHTTPMetrics(method, endpoint, status) ==
    /\ HTTPRequestDuration' = Inc(HTTPRequestDuration, <<method, endpoint>>)
    /\ HTTPRequestsTotal' = Inc(HTTPRequestsTotal, <<method, endpoint, StatusText(status)>>)

(* --------------------------- metric registry --------------------------- *)
KnownTypes == {"counter", "gauge", "histogram"}

\* a new child of a vec: a counter or gauge at 0, an empty histogram
NewChild(kind) == IF kind = "histogram" THEN [count |-> 0, sum |-> 0] ELSE 0

\* Counter.Add(v), Gauge.Set(v), Histogram.Observe(v) on a child
UpdateChild(kind, cur, v) ==
    CASE kind = "counter" -> cur + v
      [] kind = "gauge" -> v
      [] kind = "histogram" -> [count |-> cur.count + 1, sum |-> cur.sum + v]

\* Counter.Add panics on a negative value ("counter cannot decrease in value")
AddPanics(kind, v) == kind = "counter" /\ v < 0

\* labelNames: "service_name", then the keys of labels in the order the range visits them (o1)
LabelNames(labels, o1) == <<"service_name">> \o o1

\* labelValues: labels["service_name"], then, after delete(labels, "service_name"), the values
\* of labels in the order the second range visits them (o2)
LabelValues(labels, o2) == <<MapGet(labels, "service_name")>> \o [i \in 1..Len(o2) |-> labels[o2[i]]]

\* a registration that would check the label names only, not the name
RegisterIgnoresName(name, labelNames) == HasDuplicates(labelNames)

\* promauto.With(reg).New*Vec panics when the descriptor repeats a label name or the
\* name is already registered; then nothing is registered and the map is not written
RegisterPanics(name, labelNames) == HasDuplicates(labelNames) \/ name \in DOMAIN reg

\* The body of RecordCustomCounter / RecordCustomGauge / RecordCustomHistogram under m.mu,
\* on the map vec of its kind.  The result: the map, the registry, the caller's labels
\* map, the labelValues slice it built and whether the call panicked.
RecordCustom(vec, kind, name, labels, value, o1, o2) ==
    LET exists == name \in DOMAIN vec
        labelNames == LabelNames(labels, o1)
        fam == IF exists THEN vec[name] ELSE [labelNames |-> labelNames, series |-> <<>>]
        vec1 == IF exists THEN vec ELSE Upsert(vec, name, fam)
        reg1 == IF exists THEN reg ELSE Upsert(reg, name, kind)
        labelValues == LabelValues(labels, o2)
        labels1 == MapDelete(labels, "service_name")
        child == IF labelValues \in DOMAIN fam.series THEN fam.series[labelValues] ELSE NewChild(kind)
        child1 == IF AddPanics(kind, value) THEN child ELSE UpdateChild(kind, child, value)
        fam1 == [fam EXCEPT !.series = Upsert(fam.series, labelValues, child1)]
    IN  IF ~exists /\ RegisterPanics(name, labelNames)
        THEN [vec |-> vec, reg |-> reg, labels |-> labels, labelValues |-> <<>>, panicked |-> TRUE]
        ELSE IF Len(labelValues) # Len(fam.labelNames)
        THEN [vec |-> vec1, reg |-> reg1, labels |-> labels1, labelValues |-> labelValues,
              panicked |-> TRUE]
        ELSE [vec |-> Upsert(vec1, name, fam1), reg |-> reg1, labels |-> labels1,
              labelValues |-> labelValues, panicked |-> AddPanics(kind, value)]

\* the two ranges over labels of one Record* call
RangeOrders(labels) == Orders(DOMAIN labels) \X Orders((DOMAIN labels) \ {"service_name"})

\* a return of MetricsHandler whose decrement would not be deferred: it is skipped when
\* RecordMetric panics
MetricsHandlerReturnNoDefer(r, panicked) ==
    IF panicked
    THEN UNCHANGED <<HTTPRequestsInFlight, resp, httpVars>>
    ELSE /\ HTTPRequestsInFlight' = HTTPRequestsInFlight - 1
         /\ resp' = [resp EXCEPT ![r] = respondSuccess([status |-> "success", message |-> "Metric recorded successfully"])]
         /\ recordHTTPMetrics("POST", "/api/v1/metrics", 200)

\* MetricsHandler after RecordMetric: the success response, the HTTP metrics and the
\* deferred Dec; when RecordMetric panicked only the deferred Dec runs and net/http
\* drops the connection
MetricsHandlerReturn(r, panicked) ==
    /\ HTTPRequestsInFlight' = HTTPRequestsInFlight - 1
    /\ IF panicked
       THEN UNCHANGED <<resp, httpVars>>
       ELSE /\ resp' = [resp EXCEPT ![r] = respondSuccess([status |-> "success", message |-> "Metric recorded successfully"])]
            /\ recordHTTPMetrics("POST", "/api/v1/metrics", 200)

\* the end of a Record* call: the deferred m.mu.Unlock(), then the caller goes on
RecordReturn(r, res) ==
    /\ reg' = res.reg
    /\ loc' = [loc EXCEPT ![r].labels = res.labels, ![r].labelValues = res.labelValues,
                          ![r].panicked = res.panicked]
    /\ mu' = 0
    /\ pc' = [pc EXCEPT ![r] = "done"]
    /\ IF req[r].route = "metric"
       THEN MetricsHandlerReturn(r, res.panicked)
       ELSE UNCHANGED <<HTTPRequestsInFlight, resp, httpVars>>

RecordCustomCounter(r) ==
    \E o \in RangeOrders(loc[r].labels) :
        LET res == RecordCustom(CustomCounters, "counter", req[r].name, loc[r].labels, req[r].value, o[1], o[2])
        IN  /\ CustomCounters' = res.vec
            /\ RecordReturn(r, res)
            /\ UNCHANGED <<CustomGauges, CustomHistograms>>

RecordCustomGauge(r) ==
    \E o \in RangeOrders(loc[r].labels) :
        LET res == RecordCustom(CustomGauges, "gauge", req[r].name, loc[r].labels, req[r].value, o[1], o[2])
        IN  /\ CustomGauges' = res.vec
            /\ RecordReturn(r, res)
            /\ UNCHANGED <<CustomCounters, CustomHistograms>>

RecordCustomHistogram(r) ==
    \E o \in RangeOrders(loc[r].labels) :
        LET res == RecordCustom(CustomHistograms, "histogram", req[r].name, loc[r].labels, req[r].value, o[1], o[2])
        IN  /\ CustomHistograms' = res.vec
            /\ RecordReturn(r, res)
            /\ UNCHANGED <<CustomCounters, CustomGauges>>

\* a Lock that would not wait for the holder of m.mu
RecordLockNoWait(r) ==
    /\ alive
    /\ pc[r] = "m_lock"
    /\ mu' = r
    /\ pc' = [pc EXCEPT ![r] = "m_update"]
    /\ UNCHANGED singleton
    /\ UNCHANGED <<alive, regVars, HTTPRequestsInFlight, httpVars, logVars, req, loc, resp, nMetric, nLog>>

\* m.mu.Lock() at the head of a Record* method
RecordLock(r) ==
    /\ alive
    /\ pc[r] = "m_lock"
    /\ mu = 0
    /\ mu' = r
    /\ pc' = [pc EXCEPT ![r] = "m_update"]
    /\ UNCHANGED singleton
    /\ UNCHANGED <<alive, regVars, HTTPRequestsInFlight, httpVars, logVars, req, loc, resp, nMetric, nLog>>

\* the body of the Record* method of the submission's kind under the lock, its deferred
\* Unlock, and, for a submission over HTTP, the rest of MetricsHandler
RecordUpdate(r) ==
    /\ alive
    /\ pc[r] = "m_update"
    /\ mu = r
    /\ \/ req[r].kind = "counter" /\ RecordCustomCounter(r)
       \/ req[r].kind = "gauge" /\ RecordCustomGauge(r)
       \/ req[r].kind = "histogram" /\ RecordCustomHistogram(r)
    /\ UNCHANGED singleton
    /\ UNCHANGED <<alive, logVars, req, nMetric, nLog>>

\* the MetricEntry bodies a client can post
MetricEntries ==
    [route : {"metric"}, body : {"ok"}, service : ServiceNames, name : MetricNames,
     kind : MetricTypes, value : MetricValues, labels : LabelMaps]
\* a body json.Decode rejects
BadMetricBody ==
    [route |-> "metric", body |-> "bad", service |-> "", name |-> "", kind |-> "", value |-> 0,
     labels |-> <<>>]
MetricBodies == MetricEntries \cup {BadMetricBody}

\* the arguments of a direct call of a Record* method
Calls ==
    [route : {"call"}, name : MetricNames, kind : KnownTypes, value : MetricValues, labels : LabelMaps]

\* RecordMetric before its switch: service_name is folded into the labels
RecordMetric(e) == Upsert(e.labels, "service_name", e.service)

\* MetricsHandler from its entry to the call of a Record* method: the in-flight gauge
\* is incremented (its decrement deferred), the body decoded, RecordMetric entered.
\* A body that does not decode is answered 400; a metric_type the switch of
\* RecordMetric does not list falls through it and the handler answers success.
MetricsHandler(r, bodies) ==
    /\ alive
    /\ Slot(r)
    /\ nMetric < MaxMetricRequests
    /\ nMetric' = nMetric + 1
    /\ \E e \in bodies :
        /\ req' = [req EXCEPT ![r] = e]
        /\ IF e.body = "bad"
           THEN /\ resp' = [resp EXCEPT ![r] = respondError(<<"Failed to parse metric entry: ", "json">>, 400)]
                /\ recordHTTPMetrics("POST", "/api/v1/metrics", 400)
                /\ loc' = [loc EXCEPT ![r] = LocInit]
                /\ pc' = [pc EXCEPT ![r] = "done"]
                /\ UNCHANGED HTTPRequestsInFlight
           ELSE IF e.kind \notin KnownTypes
           THEN /\ resp' = [resp EXCEPT ![r] = respondSuccess([status |-> "success", message |-> "Metric recorded successfully"])]
                /\ recordHTTPMetrics("POST", "/api/v1/metrics", 200)
                /\ loc' = [loc EXCEPT ![r] = [LocInit EXCEPT !.labels = RecordMetric(e)]]
                /\ pc' = [pc EXCEPT ![r] = "done"]
                /\ UNCHANGED HTTPRequestsInFlight
           ELSE /\ HTTPRequestsInFlight' = HTTPRequestsInFlight + 1
                /\ loc' = [loc EXCEPT ![r] = [LocInit EXCEPT !.labels = RecordMetric(e)]]
                /\ pc' = [pc EXCEPT ![r] = "m_lock"]
                /\ resp' = [resp EXCEPT ![r] = NoResp]
                /\ UNCHANGED httpVars
    /\ UNCHANGED singleton
    /\ UNCHANGED <<alive, mu, regVars, logVars, nLog>>

\* in-process code calls RecordCustomCounter / Gauge / Histogram directly
CallRecordCustom(r, calls) ==
    /\ alive
    /\ Slot(r)
    /\ nMetric < MaxMetricRequests
    /\ \E c \in calls :
        /\ req' = [req EXCEPT ![r] = c]
        /\ loc' = [loc EXCEPT ![r] = [LocInit EXCEPT !.labels = c.labels]]
    /\ nMetric' = nMetric + 1
    /\ pc' = [pc EXCEPT ![r] = "m_lock"]
    /\ resp' = [resp EXCEPT ![r] = NoResp]
    /\ UNCHANGED singleton
    /\ UNCHANGED <<alive, mu, regVars, HTTPRequestsInFlight, httpVars, logVars, nLog>>

NextMetrics ==
    \E r \in Reqs :
        \/ MetricsHandler(r, MetricBodies)
        \/ CallRecordCustom(r, Calls)
        \/ RecordLock(r)
        \/ RecordUpdate(r)

\* the metric side of the gateway: POST /api/v1/metrics and direct Record* calls
SpecMetrics == Init /\ [][NextMetrics]_vars

(* ------------------------------- logger -------------------------------- *)
\* a switch whose default case would log at warn
SeverityDefaultWarn(level) ==
    IF level \in {"debug", "info", "error", "fatal", "panic"} THEN level ELSE "warn"

\* the switch of LogFromService: the zap method a level string is logged with
Severity(level) ==
    CASE level = "debug" -> "debug"
      [] level = "info" -> "info"
      [] level \in {"warn", "warning"} -> "warn"
      [] level = "error" -> "error"
      [] level = "fatal" -> "fatal"
      [] level = "panic" -> "panic"
      [] OTHER -> "info"

Rank(sev) == CHOOSE i \in 1..Len(SeverityOrder) : SeverityOrder[i] = sev

\* the logger built by InitLogger(MinLevel, ...) writes the entries at or above MinLevel
Enabled(sev) == Rank(sev) >= Rank(MinLevel)

\* ParseLogEntry on a body that unmarshals: a zero timestamp becomes time.Now()
ParseLogEntry(e) == IF e.ts = "zero" THEN [e EXCEPT !.ts = Now] ELSE e

\* LogFromService(entry) by goroutine r: the entry is written at its severity; then
\* Logger.Fatal ends the process (os.Exit(1)) and Logger.Panic panics.  The function
\* has no path that returns an error.
LogFromService(r, entry) ==
    LET sev == Severity(entry.level)
    IN  /\ sink' = IF Enabled(sev) THEN Inc(sink, <<entry.service, sev>>) ELSE sink
        /\ alive' = (sev # "fatal")
        /\ loc' = [loc EXCEPT ![r].written = IF Enabled(sev) THEN @ + 1 ELSE @,
                              ![r].panicked = (sev = "panic"),
                              ![r].i = @ + 1]

\* a decoder that would stop looking after the first element of the array
DecodeFirstElementOnly(entries) == Len(entries) >= 1 /\ entries[1].bad # ""

\* json.Decoder.Decode into []LogEntry fails when an element fails
DecodeFails(entries) == \E i \in 1..Len(entries) : entries[i].bad # ""

\* the error Decode returns: an Unmarshaler's error (a bad timestamp) stops the decoding
\* and is returned; an UnmarshalTypeError is saved, the decoding goes on, and the first
\* one saved is returned at the end only if nothing else failed
DecodeError(entries) ==
    LET first(f) == CHOOSE i \in 1..Len(entries) :
                        /\ entries[i].bad = f
                        /\ \A j \in 1..(i - 1) : entries[j].bad # f
    IN  IF \E i \in 1..Len(entries) : entries[i].bad = "time"
        THEN <<"time", first("time")>>
        ELSE <<"type", first("type")>>

\* the message of a decode error: it names the kind of failure, not the element
ErrorText(err) == <<err[1]>>

(* ----------------------------- log handlers ---------------------------- *)
LogEntries(levels) == [service : ServiceNames, level : levels, ts : ClientTimestamps, bad : {""}]
BadEntries == [service : {""}, level : {""}, ts : {"zero"}, bad : DecodeFailures]
SeqsUpTo(S, n) == UNION {[1..k -> S] : k \in 0..n}

\* the bodies a client can post to /api/v1/logs
LogBodies ==
    {[route |-> "log", body |-> "ok", entry |-> e] : e \in LogEntries(Levels)}
        \cup {[route |-> "log", body |-> "bad", entry |-> NoEntry]}

\* the levels of the entries of the batches of the model
BatchLevels == {"warn", "fatal", "panic"}
\* the bodies a client can post to /api/v1/logs/batch
Batches ==
    {[route |-> "batch", entries |-> es] : es \in SeqsUpTo(LogEntries(BatchLevels) \cup BadEntries, MaxBatch)}

\* LogHandler from its entry to the call of LogFromService: in-flight gauge, ParseLogEntry,
\* the received counter.  On a parse error the handler answers 400, records the HTTP
\* metrics and then reads entry.ServiceName of the nil entry ParseLogEntry returned:
\* it panics before LogsErrors is incremented, and the deferred Dec runs.
LogHandler(r, bodies) ==
    /\ alive
    /\ Slot(r)
    /\ nLog < MaxLogRequests
    /\ nLog' = nLog + 1
    /\ \E e \in bodies :
        /\ req' = [req EXCEPT ![r] = e]
        /\ IF e.body = "bad"
           THEN /\ resp' = [resp EXCEPT ![r] = respondError(<<"Failed to parse log entry: ", "json">>, 400)]
                /\ recordHTTPMetrics("POST", "/api/v1/logs", 400)
                /\ loc' = [loc EXCEPT ![r] = [LocInit EXCEPT !.panicked = TRUE]]
                /\ pc' = [pc EXCEPT ![r] = "done"]
                /\ UNCHANGED <<HTTPRequestsInFlight, LogsReceived>>
           ELSE /\ HTTPRequestsInFlight' = HTTPRequestsInFlight + 1
                /\ loc' = [loc EXCEPT ![r] = [LocInit EXCEPT !.entry = ParseLogEntry(e.entry)]]
                /\ LogsReceived' = Inc(LogsReceived, <<e.entry.service, e.entry.level>>)
                /\ resp' = [resp EXCEPT ![r] = NoResp]
                /\ pc' = [pc EXCEPT ![r] = "l_log"]
                /\ UNCHANGED httpVars
    /\ UNCHANGED singleton
    /\ UNCHANGED <<alive, mu, regVars, LogsProcessed, LogsErrors, LogBatchSize, sink, nMetric>>

\* LogHandler calls LogFromService
LogHandlerLog(r) ==
    /\ alive
    /\ pc[r] = "l_log"
    /\ LogFromService(r, loc[r].entry)
    /\ IF Severity(loc[r].entry.level) = "fatal"
       THEN UNCHANGED <<pc, HTTPRequestsInFlight>>
       ELSE IF Severity(loc[r].entry.level) = "panic"
       THEN /\ pc' = [pc EXCEPT ![r] = "done"]
            /\ HTTPRequestsInFlight' = HTTPRequestsInFlight - 1
       ELSE /\ pc' = [pc EXCEPT ![r] = "l_processed"]
            /\ UNCHANGED HTTPRequestsInFlight
    /\ UNCHANGED singleton
    /\ UNCHANGED <<mu, regVars, httpVars, LogsReceived, LogsProcessed, LogsErrors, LogBatchSize,
                   req, resp, nMetric, nLog>>

\* LogHandler after LogFromService has returned: the processed counter, the success
\* response, the HTTP metrics, the deferred Dec
LogHandlerFinish(r) ==
    /\ alive
    /\ pc[r] = "l_processed"
    /\ LogsProcessed' = Inc(LogsProcessed, <<loc[r].entry.service, loc[r].entry.level>>)
    /\ resp' = [resp EXCEPT ![r] = respondSuccess([status |-> "success", message |-> "Log entry processed successfully"])]
    /\ recordHTTPMetrics("POST", "/api/v1/logs", 200)
    /\ HTTPRequestsInFlight' = HTTPRequestsInFlight - 1
    /\ pc' = [pc EXCEPT ![r] = "done"]
    /\ UNCHANGED singleton
    /\ UNCHANGED <<alive, mu, regVars, LogsReceived, LogsErrors, LogBatchSize, sink, req, loc, nMetric, nLog>>

\* LogBatchHandler from its entry to the call of LogBatch: in-flight gauge, the decoding
\* of the array (a body that does not decode is answered 400), the batch-size histogram
LogBatchHandler(r, batches) ==
    /\ alive
    /\ Slot(r)
    /\ nLog < MaxLogRequests
    /\ nLog' = nLog + 1
    /\ \E e \in batches :
        /\ req' = [req EXCEPT ![r] = e]
        /\ IF DecodeFails(e.entries)
           THEN /\ resp' = [resp EXCEPT ![r] =
                        respondError(<<"Failed to parse log entries: ", ErrorText(DecodeError(e.entries))>>, 400)]
                /\ recordHTTPMetrics("POST", "/api/v1/logs/batch", 400)
                /\ loc' = [loc EXCEPT ![r] = LocInit]
                /\ pc' = [pc EXCEPT ![r] = "done"]
                /\ UNCHANGED <<HTTPRequestsInFlight, LogBatchSize>>
           ELSE /\ HTTPRequestsInFlight' = HTTPRequestsInFlight + 1
                /\ LogBatchSize' = LogBatchSize + 1
                /\ loc' = [loc EXCEPT ![r] = [LocInit EXCEPT !.entries = e.entries, !.i = 1]]
                /\ resp' = [resp EXCEPT ![r] = NoResp]
                /\ pc' = [pc EXCEPT ![r] = IF Len(e.entries) = 0 THEN "b_count" ELSE "b_log"]
                /\ UNCHANGED httpVars
    /\ UNCHANGED singleton
    /\ UNCHANGED <<alive, mu, regVars, LogsReceived, LogsProcessed, LogsErrors, sink, nMetric>>

\* one iteration of the loop of LogBatch: LogFromService on the next entry
LogBatch(r) ==
    /\ alive
    /\ pc[r] = "b_log"
    /\ LET entry == loc[r].entries[loc[r].i]
           last == loc[r].i = Len(loc[r].entries)
       IN  /\ LogFromService(r, entry)
           /\ IF Severity(entry.level) = "fatal"
              THEN UNCHANGED <<pc, HTTPRequestsInFlight>>
              ELSE IF Severity(entry.level) = "panic"
              THEN /\ pc' = [pc EXCEPT ![r] = "done"]
                   /\ HTTPRequestsInFlight' = HTTPRequestsInFlight - 1
              ELSE /\ pc' = [pc EXCEPT ![r] = IF last THEN "b_count" ELSE "b_log"]
                   /\ UNCHANGED HTTPRequestsInFlight
    /\ UNCHANGED singleton
    /\ UNCHANGED <<mu, regVars, httpVars, LogsReceived, LogsProcessed, LogsErrors, LogBatchSize,
                   req, resp, nMetric, nLog>>

\* a counting loop that would count an entry as processed without counting it as received
LogBatchCountProcessedOnly(r) ==
    /\ alive
    /\ pc[r] = "b_count"
    /\ loc[r].counted < Len(loc[r].entries)
    /\ LET entry == loc[r].entries[loc[r].counted + 1]
       IN  LogsProcessed' = Inc(LogsProcessed, <<entry.service, entry.level>>)
    /\ loc' = [loc EXCEPT ![r].counted = @ + 1]
    /\ UNCHANGED singleton
    /\ UNCHANGED <<alive, mu, regVars, HTTPRequestsInFlight, httpVars, LogsReceived, LogsErrors,
                   LogBatchSize, sink, pc, req, resp, nMetric, nLog>>

\* one iteration of the counting loop of LogBatchHandler, entered when LogBatch has
\* returned nil: the received and the processed counter of the next entry
LogBatchCount(r) ==
    /\ alive
    /\ pc[r] = "b_count"
    /\ loc[r].counted < Len(loc[r].entries)
    /\ LET entry == loc[r].entries[loc[r].counted + 1]
       IN  /\ LogsReceived' = Inc(LogsReceived, <<entry.service, entry.level>>)
           /\ LogsProcessed' = Inc(LogsProcessed, <<entry.service, entry.level>>)
    /\ loc' = [loc EXCEPT ![r].counted = @ + 1]
    /\ UNCHANGED singleton
    /\ UNCHANGED <<alive, mu, regVars, HTTPRequestsInFlight, httpVars, LogsErrors, LogBatchSize, sink,
                   pc, req, resp, nMetric, nLog>>

\* LogBatchHandler after its counting loop: the success response with the count, the
\* HTTP metrics, the deferred Dec
LogBatchFinish(r) ==
    /\ alive
    /\ pc[r] = "b_count"
    /\ loc[r].counted = Len(loc[r].entries)
    /\ resp' = [resp EXCEPT ![r] = respondSuccess([status |-> "success",
                    message |-> "Log batch processed successfully", count |-> Len(loc[r].entries)])]
    /\ recordHTTPMetrics("POST", "/api/v1/logs/batch", 200)
    /\ HTTPRequestsInFlight' = HTTPRequestsInFlight - 1
    /\ pc' = [pc EXCEPT ![r] = "done"]
    /\ UNCHANGED singleton
    /\ UNCHANGED <<alive, mu, regVars, LogsReceived, LogsProcessed, LogsErrors, LogBatchSize, sink,
                   req, loc, nMetric, nLog>>

NextLogs ==
    \E r \in Reqs :
        \/ LogHandler(r, LogBodies)
        \/ LogHandlerLog(r)
        \/ LogHandlerFinish(r)
        \/ LogBatchHandler(r, Batches)
        \/ LogBatch(r)
        \/ LogBatchCount(r)
        \/ LogBatchFinish(r)

\* the log side of the gateway: POST /api/v1/logs and POST /api/v1/logs/batch
SpecLogs == Init /\ [][NextLogs]_vars

\* batches of entries of the levels warn and error
SmallBatches ==
    {[route |-> "batch", entries |-> es] :
        es \in SeqsUpTo([service : ServiceNames, level : {"warn", "error"}, ts : {"zero"}, bad : {""}]
                            \cup BadEntries, MaxBatch)}

NextBatch ==
    \E r \in Reqs :
        \/ LogBatchHandler(r, SmallBatches)
        \/ LogBatch(r)
        \/ LogBatchCount(r)
        \/ LogBatchFinish(r)

\* POST /api/v1/logs/batch alone, under batches that never ask for fatal or panic
SpecBatch == Init /\ [][NextBatch]_vars

\* single entries and batches of a level string the switch does not list, of the alias
\* "warning" and of the listed levels info and warn
LevelBodies ==
    {[route |-> "log", body |-> "ok", entry |-> e] :
        e \in [service : ServiceNames, level : {"verbose", "warning", "info"}, ts : {"zero"}, bad : {""}]}
LevelBatches ==
    {[route |-> "batch", entries |-> es] :
        es \in SeqsUpTo([service : ServiceNames, level : {"verbose", "warn"}, ts : {"zero"}, bad : {""}],
                        MaxBatch)}

NextLevels ==
    \E r \in Reqs :
        \/ LogHandler(r, LevelBodies)
        \/ LogHandlerLog(r)
        \/ LogHandlerFinish(r)
        \/ LogBatchHandler(r, LevelBatches)
        \/ LogBatch(r)
        \/ LogBatchCount(r)
        \/ LogBatchFinish(r)

\* both log endpoints under entries of unlisted and of listed levels
SpecLevels == Init /\ [][NextLevels]_vars

(* ------------------------ health probe and scrape ----------------------- *)
\* HealthCheck is entered: the handler does not touch the in-flight gauge
HealthCheck(r) ==
    /\ alive
    /\ Slot(r)
    /\ req' = [req EXCEPT ![r] = [route |-> "health"]]
    /\ loc' = [loc EXCEPT ![r] = LocInit]
    /\ resp' = [resp EXCEPT ![r] = NoResp]
    /\ pc' = [pc EXCEPT ![r] = "h_write"]
    /\ UNCHANGED singleton
    /\ UNCHANGED <<alive, mu, regVars, HTTPRequestsInFlight, httpVars, logVars, nMetric, nLog>>

\* HealthCheck writes its body and returns
HealthCheckWrite(r) ==
    /\ alive
    /\ pc[r] = "h_write"
    /\ resp' = [resp EXCEPT ![r] = respondSuccess([status |-> "healthy", service |-> "telemetry-service"])]
    /\ pc' = [pc EXCEPT ![r] = "done"]
    /\ UNCHANGED singleton
    /\ UNCHANGED <<alive, mu, regVars, HTTPRequestsInFlight, httpVars, logVars, req, loc, nMetric, nLog>>

\* GET /metrics is routed to the promhttp handler of the registry: it is not wrapped by
\* the in-flight gauge or the HTTP metrics, and it does not take Metrics.mu
PrometheusMetricsHandler(r) ==
    /\ alive
    /\ Slot(r)
    /\ req' = [req EXCEPT ![r] = [route |-> "scrape"]]
    /\ loc' = [loc EXCEPT ![r] = LocInit]
    /\ resp' = [resp EXCEPT ![r] = NoResp]
    /\ pc' = [pc EXCEPT ![r] = "s_gather"]
    /\ UNCHANGED singleton
    /\ UNCHANGED <<alive, mu, regVars, HTTPRequestsInFlight, httpVars, logVars, nMetric, nLog>>

\* the exposition of the custom families: for each registered name its TYPE line and
\* its samples (label names, and the value of each label-tuple)
Exposition ==
    [n \in DOMAIN reg |->
        LET vec == CASE reg[n] = "counter" -> CustomCounters
                     [] reg[n] = "gauge" -> CustomGauges
                     [] reg[n] = "histogram" -> CustomHistograms
        IN  [type |-> reg[n], labelNames |-> vec[n].labelNames, samples |-> vec[n].series]]

\* a gathering that would reset the counters it has collected
GatherAndReset(r) ==
    /\ alive
    /\ pc[r] = "s_gather"
    /\ resp' = [resp EXCEPT ![r] = [code |-> 200, body |-> [status |-> "exposition", families |-> Exposition]]]
    /\ pc' = [pc EXCEPT ![r] = "done"]
    /\ CustomCounters' = [n \in DOMAIN CustomCounters |->
                            [CustomCounters[n] EXCEPT !.series = [t \in DOMAIN @ |-> 0]]]
    /\ UNCHANGED singleton
    /\ UNCHANGED <<alive, mu, reg, CustomGauges, CustomHistograms, HTTPRequestsInFlight, httpVars,
                   logVars, req, loc, nMetric, nLog>>

\* Registry.Gather and the writing of the exposition: the registry is read, not written
Gather(r) ==
    /\ alive
    /\ pc[r] = "s_gather"
    /\ resp' = [resp EXCEPT ![r] = [code |-> 200, body |-> [status |-> "exposition", families |-> Exposition]]]
    /\ pc' = [pc EXCEPT ![r] = "done"]
    /\ UNCHANGED singleton
    /\ UNCHANGED <<alive, mu, regVars, HTTPRequestsInFlight, httpVars, logVars, req, loc, nMetric, nLog>>

NextProbes ==
    \E r \in Reqs :
        \/ HealthCheck(r)
        \/ HealthCheckWrite(r)
        \/ PrometheusMetricsHandler(r)
        \/ Gather(r)

\* a few submissions for the names x and y: direct calls without labels, and posts
\* for x of every kind
SmallCalls ==
    [route : {"call"}, name : {"x", "y"}, kind : {"counter", "gauge"}, value : {3}, labels : {<<>>}]
SmallMetricBodies ==
    [route : {"metric"}, body : {"ok"}, service : ServiceNames, name : {"x"},
     kind : KnownTypes, value : {5}, labels : {<<>>}]

NextScrape ==
    \E r \in Reqs :
        \/ MetricsHandler(r, SmallMetricBodies)
        \/ CallRecordCustom(r, SmallCalls)
        \/ RecordLock(r)
        \/ RecordUpdate(r)
        \/ PrometheusMetricsHandler(r)
        \/ Gather(r)

\* metric submissions interleaved with scrapes of GET /metrics
SpecScrape == Init /\ [][NextScrape]_vars

\* requests that take every exit path of the handlers: a post for x that is recorded or
\* panics, bodies that do not decode, entries of the levels warn and panic
GaugeMetricBodies ==
    [route : {"metric"}, body : {"ok"}, service : ServiceNames, name : {"x"},
     kind : {"counter"}, value : {3}, labels : {<<>>}] \cup {BadMetricBody}
GaugeCalls == [route : {"call"}, name : {"x"}, kind : {"counter"}, value : {3}, labels : {<<>>}]
GaugeLogBodies ==
    {[route |-> "log", body |-> "ok", entry |-> e] :
        e \in [service : ServiceNames, level : {"warn", "panic"}, ts : {"zero"}, bad : {""}]}
        \cup {[route |-> "log", body |-> "bad", entry |-> NoEntry]}
GaugeBatches ==
    {[route |-> "batch", entries |-> es] :
        es \in SeqsUpTo([service : ServiceNames, level : {"warn"}, ts : {"zero"}, bad : {""}], MaxBatch)
                    \cup {<<[service |-> "", level |-> "", ts |-> "zero", bad |-> "type"]>>}}

\* a further submission can be started
IngestBudget == nMetric + nLog < MaxIngest

NextGauge ==
    \E r \in Reqs :
        \/ IngestBudget /\ MetricsHandler(r, GaugeMetricBodies)
        \/ IngestBudget /\ CallRecordCustom(r, GaugeCalls)
        \/ RecordLock(r)
        \/ RecordUpdate(r)
        \/ IngestBudget /\ LogHandler(r, GaugeLogBodies)
        \/ LogHandlerLog(r)
        \/ LogHandlerFinish(r)
        \/ IngestBudget /\ LogBatchHandler(r, GaugeBatches)
        \/ LogBatch(r)
        \/ LogBatchCount(r)
        \/ LogBatchFinish(r)
        \/ HealthCheck(r)
        \/ HealthCheckWrite(r)
        \/ PrometheusMetricsHandler(r)
        \/ Gather(r)

\* every handler of the gateway, under requests that take each of its exit paths
SpecGauge == Init /\ [][NextGauge]_vars

(* ------------------------- a sink that fails --------------------------- *)
\* LogFromService(entry) when the sink destination does not accept the write (stdout
\* closed, logs/telemetry.log on a full disk): zap's CheckedEntry.Write reports the
\* failed write on the logger's ErrorOutput and returns nothing, so the logger method
\* returns as after a write and LogFromService returns nil; Fatal and Panic end as ever
LogFromServiceSinkDown(r, entry) ==
    LET sev == Severity(entry.level)
    IN  /\ UNCHANGED sink
        /\ alive' = (sev # "fatal")
        /\ loc' = [loc EXCEPT ![r].sinkErr = Enabled(sev),
                              ![r].panicked = (sev = "panic"),
                              ![r].i = @ + 1]

\* LogHandler calls LogFromService while the sink does not accept writes
LogHandlerLogSinkDown(r) ==
    /\ alive
    /\ pc[r] = "l_log"
    /\ LogFromServiceSinkDown(r, loc[r].entry)
    /\ IF Severity(loc[r].entry.level) = "fatal"
       THEN UNCHANGED <<pc, HTTPRequestsInFlight>>
       ELSE IF Severity(loc[r].entry.level) = "panic"
       THEN /\ pc' = [pc EXCEPT ![r] = "done"]
            /\ HTTPRequestsInFlight' = HTTPRequestsInFlight - 1
       ELSE /\ pc' = [pc EXCEPT ![r] = "l_processed"]
            /\ UNCHANGED HTTPRequestsInFlight
    /\ UNCHANGED singleton
    /\ UNCHANGED <<mu, regVars, httpVars, LogsReceived, LogsProcessed, LogsErrors, LogBatchSize,
                   req, resp, nMetric, nLog>>

\* single entries of the levels the logger writes without ending the request, and a body
\* that does not parse
SinkBodies ==
    {[route |-> "log", body |-> "ok", entry |-> e] :
        e \in [service : ServiceNames, level : {"info", "warn", "error"}, ts : ClientTimestamps, bad : {""}]}
        \cup {[route |-> "log", body |-> "bad", entry |-> NoEntry]}

NextSink ==
    \E r \in Reqs :
        \/ LogHandler(r, SinkBodies)
        \/ LogHandlerLog(r)
        \/ LogHandlerLogSinkDown(r)
        \/ LogHandlerFinish(r)

\* POST /api/v1/logs alone, over a sink whose writes can fail
SpecSink == Init /\ [][NextSink]_vars

(* ------------------- the singleton of package metrics ------------------ *)
\* the package functions a goroutine can call
SingletonFns == {"InitMetrics", "GetMetrics", "GetRegistry"}

\* what the functions leave alone
servingVars == <<alive, mu, regVars, HTTPRequestsInFlight, httpVars, logVars, loc, nMetric, nLog>>

\* the values an unsynchronized read of a package pointer can observe while another
\* goroutine may be writing it inside once.Do (a data race): the nil of the start of
\* the process or the pointer stored so far
RacyRead(ptr) == {0, ptr}

\* the value a call returns to its caller
Returned(v) == [code |-> 0, body |-> [status |-> "returned", ptr |-> v]]

\* a goroutine calls InitMetrics: it arrives at once.Do
InitMetrics(r) ==
    /\ alive
    /\ Slot(r)
    /\ singleton.calls < MaxCalls
    /\ singleton' = [singleton EXCEPT !.calls = @ + 1]
    /\ req' = [req EXCEPT ![r] = [route |-> "InitMetrics"]]
    /\ resp' = [resp EXCEPT ![r] = NoResp]
    /\ pc' = [pc EXCEPT ![r] = "o_do"]
    /\ UNCHANGED servingVars

\* a goroutine calls GetMetrics: it reads metrics without synchronization and returns
\* it, or calls InitMetrics when it has read nil
GetMetrics(r) ==
    /\ alive
    /\ Slot(r)
    /\ singleton.calls < MaxCalls
    /\ singleton' = [singleton EXCEPT !.calls = @ + 1]
    /\ req' = [req EXCEPT ![r] = [route |-> "GetMetrics"]]
    /\ \E v \in RacyRead(singleton.metrics) :
          IF v = 0
          THEN /\ pc' = [pc EXCEPT ![r] = "o_do"]
               /\ resp' = [resp EXCEPT ![r] = NoResp]
          ELSE /\ pc' = [pc EXCEPT ![r] = "done"]
               /\ resp' = [resp EXCEPT ![r] = Returned(singleton.metrics)]
    /\ UNCHANGED servingVars

\* a goroutine calls GetRegistry: it reads reg without synchronization and returns it,
\* or calls InitMetrics when it has read nil
GetRegistry(r) ==
    /\ alive
    /\ Slot(r)
    /\ singleton.calls < MaxCalls
    /\ singleton' = [singleton EXCEPT !.calls = @ + 1]
    /\ req' = [req EXCEPT ![r] = [route |-> "GetRegistry"]]
    /\ \E v \in RacyRead(singleton.reg) :
          IF v = 0
          THEN /\ pc' = [pc EXCEPT ![r] = "o_do"]
               /\ resp' = [resp EXCEPT ![r] = NoResp]
          ELSE /\ pc' = [pc EXCEPT ![r] = "done"]
               /\ resp' = [resp EXCEPT ![r] = Returned(singleton.reg)]
    /\ UNCHANGED servingVars

\* an initialization guarded by a check of the pointer in place of sync.Once
OnceDoUnguarded(r) ==
    /\ alive
    /\ pc[r] = "o_do"
    /\ pc' = [pc EXCEPT ![r] = IF singleton.metrics = 0 THEN "o_reg" ELSE "o_ret"]
    /\ UNCHANGED <<singleton, servingVars, req, resp>>

\* once.Do(f): the first caller runs f, a caller that arrives while f runs waits, a
\* caller that arrives after f has returned goes on
OnceDo(r) ==
    /\ alive
    /\ pc[r] = "o_do"
    /\ \/ /\ singleton.once = "new"
          /\ singleton' = [singleton EXCEPT !.once = "running"]
          /\ pc' = [pc EXCEPT ![r] = "o_reg"]
       \/ /\ singleton.once = "done"
          /\ pc' = [pc EXCEPT ![r] = "o_ret"]
          /\ UNCHANGED singleton
    /\ UNCHANGED <<servingVars, req, resp>>

\* f: reg = prometheus.NewRegistry()
NewRegistry(r) ==
    /\ alive
    /\ pc[r] = "o_reg"
    /\ singleton' = [singleton EXCEPT !.registries = @ + 1, !.reg = singleton.registries + 1]
    /\ pc' = [pc EXCEPT ![r] = "o_new"]
    /\ UNCHANGED <<servingVars, req, resp>>

\* f: metrics = &Metrics{...}: the factory registers the built-in metrics with reg, the
\* pointer is stored, f returns
NewMetrics(r) ==
    /\ alive
    /\ pc[r] = "o_new"
    /\ singleton' = [singleton EXCEPT !.builtins = @ + 1, !.instances = @ + 1,
                                      !.metrics = singleton.instances + 1, !.once = "done"]
    /\ pc' = [pc EXCEPT ![r] = "o_ret"]
    /\ UNCHANGED <<servingVars, req, resp>>

\* after once.Do: InitMetrics returns metrics (GetMetrics passes it on), GetRegistry
\* returns reg
InitMetricsReturn(r) ==
    /\ alive
    /\ pc[r] = "o_ret"
    /\ resp' = [resp EXCEPT ![r] =
                  Returned(IF req[r].route = "GetRegistry" THEN singleton.reg ELSE singleton.metrics)]
    /\ pc' = [pc EXCEPT ![r] = "done"]
    /\ UNCHANGED <<singleton, servingVars, req>>

NextSingleton ==
    \E r \in Reqs :
        \/ InitMetrics(r)
        \/ GetMetrics(r)
        \/ GetRegistry(r)
        \/ OnceDo(r)
        \/ NewRegistry(r)
        \/ NewMetrics(r)
        \/ InitMetricsReturn(r)

\* the start of the process: nothing of package metrics is initialized
Boot == Fresh /\ singleton = Uninitialized

\* goroutines calling the package functions of internal/metrics from the start of the process
SpecSingleton == Boot /\ [][NextSingleton]_vars

Next == NextMetrics \/ NextLogs \/ NextProbes \/ NextSink \/ NextSingleton

Spec == Init /\ [][Next]_vars

(* ------------------------------- claims -------------------------------- *)
\* the keys of S in lexicographic order
Sorted(S) == SelectSeq(KeyOrder, LAMBDA k : k \in S)

\* the map of its kind a submission is recorded in
VecOf(kind) ==
    CASE kind = "counter" -> CustomCounters
      [] kind = "gauge" -> CustomGauges
      [] kind = "histogram" -> CustomHistograms

\* the labels a submission is made under: over HTTP, the posted labels with service_name
\* folded in; in a direct call, the labels passed
Submitted(e) == IF e.route = "metric" THEN RecordMetric(e) ELSE e.labels

\* the values a family exposes for the label set lbl (a map from its keys to values)
Exposed(vec, name, lbl) ==
    IF name \notin DOMAIN vec THEN {}
    ELSE LET fam == vec[name]
         IN  {fam.series[t] : t \in {u \in DOMAIN fam.series :
                {<<fam.labelNames[i], u[i]>> : i \in 1..Len(u)} = {<<k, lbl[k]>> : k \in DOMAIN lbl}}}

RECURSIVE SumValues(_)
\* the sum of the values of the submissions held by the slots of S
SumValues(S) ==
    IF S = {} THEN 0
    ELSE LET r == CHOOSE x \in S : TRUE IN req[r].value + SumValues(S \ {r})

\* a well-formed counter submission posted to /api/v1/metrics
CounterSubmission(e) == e.route = "metric" /\ e.body = "ok" /\ e.kind = "counter" /\ e.value >= 0

\* C1: when concurrent counter submissions through RecordMetric to one metric name and
\* one label set have all returned, the value exposed for that label set is the sum of
\* the submitted values (no update is lost).
C1_ConcurrentCounterSum ==
    (/\ nMetric = MaxConc
     /\ \A r \in Reqs : pc[r] = "done" /\ CounterSubmission(req[r])
     /\ \A r, q \in Reqs : req[r].name = req[q].name /\ Submitted(req[r]) = Submitted(req[q]))
    => \A r \in Reqs :
          Exposed(CustomCounters, req[r].name, Submitted(req[r])) = {SumValues(Reqs)}

\* the label keys of family fam as a set
KeySet(fam) == {fam.labelNames[i] : i \in 1..Len(fam.labelNames)}

\* goroutine r takes the step that runs the body of its Record* method
Records(r) == pc[r] = "m_update" /\ pc'[r] = "done"

\* C2: once a family exists for a metric name, a later submission for the name whose
\* label-key set (service_name folded in) differs from the family's is rejected with
\* an error response, and no recorded value of the registry changes.
C2_SchemaMismatchRejected ==
    [][\A r \in Reqs :
          (/\ Records(r)
           /\ req[r].route = "metric"
           /\ req[r].name \in DOMAIN VecOf(req[r].kind)
           /\ DOMAIN Submitted(req[r]) # KeySet(VecOf(req[r].kind)[req[r].name]))
          => /\ resp'[r].code = 400
             /\ resp'[r].body.status = "error"
             /\ UNCHANGED regVars]_vars

\* a submission posted to /api/v1/metrics that was accepted: a known kind, the label keys
\* of its family, recorded without a panic
Accepted(r) ==
    /\ pc[r] = "done"
    /\ req[r].route = "metric"
    /\ req[r].body = "ok"
    /\ req[r].kind \in KnownTypes
    /\ ~loc[r].panicked
    /\ KeySet(VecOf(req[r].kind)[req[r].name]) = DOMAIN Submitted(req[r])

\* C3: the sample an accepted submission updates carries, for each label key of the
\* family, the value the submission supplied for that key (service_name included): a
\* value is never attached to another key than the one it was submitted under.
C3_ValuesUnderTheirKeys ==
    \A r \in Reqs :
        Accepted(r) =>
            LET fam == VecOf(req[r].kind)[req[r].name]
            IN  /\ Len(loc[r].labelValues) = Len(fam.labelNames)
                /\ \A i \in 1..Len(fam.labelNames) :
                      loc[r].labelValues[i] = Submitted(req[r])[fam.labelNames[i]]

\* C8: a counter submission with a negative value is answered with an error returned
\* to the caller, and leaves the registry as it was (no family created, no value changed).
C8_NegativeCounterRejected ==
    [][\A r \in Reqs :
          (Records(r) /\ req[r].route = "metric" /\ req[r].kind = "counter" /\ req[r].value < 0)
          => /\ resp'[r].code = 400
             /\ resp'[r].body.status = "error"
             /\ UNCHANGED regVars]_vars

\* C9: a submission whose metric_type is not counter, gauge or histogram is answered
\* 400 with an error envelope, never as a recorded metric, and leaves the registry as it was.
C9_UnknownKindRejected ==
    [][\A r \in Reqs :
          (/\ Slot(r)
           /\ nMetric' = nMetric + 1
           /\ req'[r].route = "metric"
           /\ req'[r].body = "ok"
           /\ req'[r].kind \notin KnownTypes)
          => /\ resp'[r].code = 400
             /\ resp'[r].body.status = "error"
             /\ UNCHANGED regVars]_vars

\* C10: the first valid submission for an unseen metric name fixes the family's schema
\* as the sorted set of the supplied label keys with service_name, each key once, and
\* the schema of a family never changes afterwards.
C10_SortedSchemaOnFirstWrite ==
    [][\A r \in Reqs :
          Records(r) =>
            /\ (req[r].name \notin DOMAIN VecOf(req[r].kind) /\ ~AddPanics(req[r].kind, req[r].value))
                => /\ req[r].name \in DOMAIN VecOf(req[r].kind)'
                   /\ VecOf(req[r].kind)'[req[r].name].labelNames =
                        Sorted(DOMAIN loc[r].labels \cup {"service_name"})
            /\ \A k \in KnownTypes : \A n \in DOMAIN VecOf(k) :
                  /\ n \in DOMAIN VecOf(k)'
                  /\ VecOf(k)'[n].labelNames = VecOf(k)[n].labelNames]_vars

SuccessLog == respondSuccess([status |-> "success", message |-> "Log entry processed successfully"])

\* the counter labels of an entry
Key(entry) == <<entry.service, entry.level>>

\* the slot holds a single-log request whose body parsed
SingleLog(r) == req[r].route = "log" /\ req[r].body = "ok"
\* the slot holds a batch request whose entries are all well-formed
GoodBatch(r) == req[r].route = "batch" /\ \A i \in 1..Len(req[r].entries) : req[r].entries[i].bad = ""

\* C4: a submitted entry of level fatal or panic never halts the gateway: the process
\* stays alive, and the request of the entry ends answered with success, the entry
\* written to the sink at its severity and counted.
C4_FatalPanicDoNotHalt ==
    /\ alive
    /\ \A r \in Reqs :
          (pc[r] = "done" /\ SingleLog(r) /\ req[r].entry.level \in {"fatal", "panic"})
          => /\ resp[r] = SuccessLog
             /\ loc[r].written = 1
             /\ Val(sink, <<req[r].entry.service, req[r].entry.level>>) >= 1
             /\ Val(LogsProcessed, Key(req[r].entry)) >= 1
    /\ \A r \in Reqs :
          (pc[r] = "done" /\ GoodBatch(r))
          => \A i \in 1..Len(req[r].entries) :
                req[r].entries[i].level \in {"fatal", "panic"}
                => /\ resp[r].code = 200
                   /\ Val(sink, <<req[r].entries[i].service, req[r].entries[i].level>>) >= 1
                   /\ Val(LogsProcessed, Key(req[r].entries[i])) >= 1

\* C5: every valid single-log submission increases received{s,l} by exactly 1 when it
\* is taken in, and ends answered with the success response while processed{s,l}
\* increases by exactly 1; no step lowers a received or processed counter.
C5_SingleLogCountedOnce ==
    [][/\ \A k \in DOMAIN LogsReceived : Val(LogsReceived', k) >= LogsReceived[k]
       /\ \A k \in DOMAIN LogsProcessed : Val(LogsProcessed', k) >= LogsProcessed[k]
       /\ \A r \in Reqs :
             /\ (Slot(r) /\ nLog' = nLog + 1 /\ req'[r].route = "log" /\ req'[r].body = "ok")
                   => LogsReceived' = Inc(LogsReceived, Key(req'[r].entry))
             /\ (SingleLog(r) /\ pc[r] \in {"l_log", "l_processed"})
                   => /\ alive'
                      /\ pc'[r] = "done" =>
                            /\ resp'[r] = SuccessLog
                            /\ LogsProcessed' = Inc(LogsProcessed, Key(req[r].entry))]_vars

\* C6: a batch of N well-formed entries, whatever their levels, ends answered with
\* success and count = N, the processed counter increased once per entry under the
\* entry's service_name and level, N times in all.
C6_BatchCountsEveryEntry ==
    [][\A r \in Reqs :
          (GoodBatch(r) /\ pc[r] \in {"b_log", "b_count"})
          => /\ alive'
             /\ loc'[r].counted = loc[r].counted + 1
                  => LogsProcessed' = Inc(LogsProcessed, Key(req[r].entries[loc'[r].counted]))
             /\ pc'[r] = "done"
                  => /\ resp'[r].code = 200
                     /\ resp'[r].body.status = "success"
                     /\ resp'[r].body.count = Len(req[r].entries)
                     /\ loc'[r].counted = Len(req[r].entries)]_vars

\* a batch request is taken in by slot r in this step
BatchArrives(r) == Slot(r) /\ nLog' = nLog + 1 /\ req'[r].route = "batch"
\* an entry of the batch fails to decode
AnyFailing(entries) == \E i \in 1..Len(entries) : entries[i].bad # ""
\* the first entry of the batch that fails to decode
FirstFailing(entries) ==
    CHOOSE i \in 1..Len(entries) : entries[i].bad # "" /\ \A j \in 1..(i - 1) : entries[j].bad = ""

\* a batch with a failing entry is rejected as a whole: no log counter moves, nothing
\* is written to the sink, the request ends with a 400 error envelope
RejectedWhole(r) ==
    /\ UNCHANGED <<LogsReceived, LogsProcessed, LogsErrors, sink>>
    /\ pc'[r] = "done"
    /\ resp'[r].code = 400
    /\ DOMAIN resp'[r].body = {"status", "error"}
    /\ resp'[r].body.status = "error"

\* C7 as stated: a batch in which an entry fails normalization is rejected as a whole
\* (counters unchanged, nothing written to the sink) and the error response identifies
\* the index and the reason of the first failing entry.
C7_BatchRejectionNamesFirstFailure ==
    [][\A r \in Reqs :
          (BatchArrives(r) /\ AnyFailing(req'[r].entries))
          => /\ RejectedWhole(r)
             /\ resp'[r].body.error[2] =
                  <<req'[r].entries[FirstFailing(req'[r].entries)].bad, FirstFailing(req'[r].entries)>>]_vars

\* C7 as amended: a batch in which an entry fails to decode is rejected as a whole
\* (counters unchanged, nothing written to the sink) with a 400 error envelope whose
\* message is the decoder's error: it names no entry, and it is the error of a bad
\* timestamp when the batch has one, of the first mistyped field otherwise.
C7_BatchRejectedAtomically ==
    [][\A r \in Reqs :
          (BatchArrives(r) /\ AnyFailing(req'[r].entries))
          => /\ RejectedWhole(r)
             /\ resp'[r].body.error[2] =
                  <<IF \E i \in 1..Len(req'[r].entries) : req'[r].entries[i].bad = "time"
                    THEN "time" ELSE "type">>]_vars

\* a batch whose first entry is well-formed and whose second fails has been rejected
\* after another batch had been counted
C7_Witness ==
    \E r \in Reqs :
        /\ pc[r] = "done"
        /\ req[r].route = "batch"
        /\ Len(req[r].entries) >= 2
        /\ req[r].entries[1].bad = ""
        /\ req[r].entries[2].bad # ""
        /\ resp[r].code = 400
        /\ \E k \in DOMAIN LogsProcessed : LogsProcessed[k] >= 1

\* the submission of slot r names a family that exists under another kind
OtherKindExists(r) == \E k \in KnownTypes \ {req[r].kind} : req[r].name \in DOMAIN VecOf(k)

\* C11: once a family exists for a name with one kind, a submission for the name with
\* another kind is rejected as an error (an error answer, not a panic), creates no
\* second family under the name and changes no recorded value.
C11_CrossKindRejected ==
    [][\A r \in Reqs :
          (Records(r) /\ OtherKindExists(r))
          => /\ ~loc'[r].panicked
             /\ req[r].route = "metric" => (resp'[r].code = 400 /\ resp'[r].body.status = "error")
             /\ UNCHANGED regVars]_vars

\* goroutine r takes the step that gathers the registry and writes the exposition
Scrapes(r) == pc[r] = "s_gather" /\ pc'[r] = "done"

\* C12: the kind of a family is fixed when the family is created (it is the kind of the
\* submission that created it, and the family is kept in the map of that kind only), no
\* later submission changes it, and every exposition reports it as the family's TYPE.
C12_KindFixedAtCreation ==
    [][/\ \A n \in DOMAIN reg :
            /\ n \in DOMAIN reg'
            /\ reg'[n] = reg[n]
            /\ \A k \in KnownTypes : (n \in DOMAIN VecOf(k)) <=> (k = reg[n])
       /\ \A r \in Reqs :
            /\ (Records(r) /\ req[r].name \notin DOMAIN reg /\ req[r].name \in DOMAIN reg')
                  => reg'[req[r].name] = req[r].kind
            /\ Scrapes(r)
                  => /\ DOMAIN resp'[r].body.families = DOMAIN reg
                     /\ \A n \in DOMAIN reg : resp'[r].body.families[n].type = reg[n]]_vars

\* family x was created as a counter, a gauge submission for x has ended, and a scrape
\* made meanwhile reports x as a counter
C12_Witness ==
    /\ "x" \in DOMAIN reg
    /\ reg["x"] = "counter"
    /\ \E r, q \in Reqs :
          /\ pc[r] = "done" /\ req[r].route \in {"call", "metric"}
          /\ req[r].name = "x" /\ req[r].kind = "gauge"
          /\ pc[q] = "done" /\ req[q].route = "scrape"
          /\ "x" \in DOMAIN resp[q].body.families
          /\ resp[q].body.families["x"].type = "counter"

\* the label set a submission is recorded under: a direct call that passes no
\* service_name is recorded under the empty service_name
Folded(e) ==
    IF e.route = "metric" THEN RecordMetric(e)
    ELSE Upsert(e.labels, "service_name", MapGet(e.labels, "service_name"))

\* C13: a gauge submission applied to a metric name and label-tuple (a new family, or a
\* family of the same label keys) leaves the value exposed for that label-tuple equal to
\* the submitted value: the last write wins, earlier values do not accumulate.
C13_GaugeLastWriteWins ==
    [][\A r \in Reqs :
          (/\ Records(r)
           /\ req[r].kind = "gauge"
           /\ ~loc'[r].panicked
           /\ req[r].name \in DOMAIN CustomGauges
                => KeySet(CustomGauges[req[r].name]) = DOMAIN Folded(req[r]))
          => Exposed(CustomGauges', req[r].name, Folded(req[r])) = {req[r].value}]_vars

\* the label-tuple of family fam a label set lbl denotes: the values of lbl in the order
\* of the family's label names
TupleOf(fam, lbl) == [i \in 1..Len(fam.labelNames) |-> MapGet(lbl, fam.labelNames[i])]

\* the series of the family name of the map vec, none when there is no such family
SeriesOf(vec, name) == IF name \in DOMAIN vec THEN vec[name].series ELSE <<>>

\* C14: a submission changes only the aggregate of the label-tuple it names in the
\* family it names: every other family, and every other label-tuple of that family,
\* keeps its aggregates.
C14_OnlyTheNamedTuple ==
    [][\A r \in Reqs :
          Records(r) =>
            \A k \in KnownTypes : \A n \in MetricNames :
                LET before == SeriesOf(VecOf(k), n)
                    after == SeriesOf(VecOf(k)', n)
                IN  \A t \in (DOMAIN before) \cup (DOMAIN after) :
                        (t \notin DOMAIN before \/ t \notin DOMAIN after \/ before[t] # after[t])
                        => /\ k = req[r].kind
                           /\ n = req[r].name
                           /\ t = TupleOf(VecOf(k)'[n], Folded(req[r]))]_vars

\* The handling of an entry whose level is not in the set listed, on both endpoints: the
\* entry is not rejected, it is written to the sink at info, and it is counted in
\* received and processed under Label(entry).
UnlistedLevelHandled(listed, Label(_)) ==
    \A r \in Reqs :
        /\ (Slot(r) /\ nLog' = nLog + 1 /\ req'[r].route = "log" /\ req'[r].body = "ok"
                /\ req'[r].entry.level \notin listed)
              => /\ pc'[r] = "l_log"
                 /\ LogsReceived' = Inc(LogsReceived, <<req'[r].entry.service, Label(req'[r].entry)>>)
        /\ (SingleLog(r) /\ req[r].entry.level \notin listed /\ pc[r] = "l_log" /\ pc'[r] # pc[r])
              => /\ sink' = Inc(sink, <<req[r].entry.service, "info">>)
                 /\ pc'[r] = "l_processed"
        /\ (SingleLog(r) /\ req[r].entry.level \notin listed /\ pc[r] = "l_processed" /\ pc'[r] # pc[r])
              => /\ LogsProcessed' = Inc(LogsProcessed, <<req[r].entry.service, Label(req[r].entry)>>)
                 /\ resp'[r] = SuccessLog
        /\ (pc[r] = "b_log" /\ loc'[r].i = loc[r].i + 1 /\ loc[r].entries[loc[r].i].level \notin listed)
              => /\ sink' = Inc(sink, <<loc[r].entries[loc[r].i].service, "info">>)
                 /\ pc'[r] \in {"b_log", "b_count"}
        /\ (pc[r] = "b_count" /\ loc'[r].counted = loc[r].counted + 1
                /\ req[r].entries[loc'[r].counted].level \notin listed)
              => LET e == req[r].entries[loc'[r].counted]
                 IN  /\ LogsReceived' = Inc(LogsReceived, <<e.service, Label(e)>>)
                     /\ LogsProcessed' = Inc(LogsProcessed, <<e.service, Label(e)>>)

\* the level info, whatever the entry
InfoLabel(e) == "info"
\* the level string of the entry as submitted
RawLabel(e) == e.level

\* C15 as stated: an entry whose level is not exactly one of debug, info, warn, error,
\* fatal, panic is never rejected, is written to the sink at info and is counted in
\* received and processed under level info.
C15_UnknownLevelCountedAsInfo ==
    [][UnlistedLevelHandled({"debug", "info", "warn", "error", "fatal", "panic"}, InfoLabel)]_vars

\* C15 as amended: an entry whose level is not one of debug, info, warn, warning, error,
\* fatal, panic is never rejected and is written to the sink at info, and it is counted
\* in received and processed under its level string as submitted; the level warning is
\* written at warn.
C15_UnknownLevelLoggedAsInfo ==
    [][/\ UnlistedLevelHandled({"debug", "info", "warn", "warning", "error", "fatal", "panic"}, RawLabel)
       /\ \A r \in Reqs :
            (SingleLog(r) /\ req[r].entry.level = "warning" /\ pc[r] = "l_log" /\ pc'[r] # pc[r])
               => sink' = Inc(sink, <<req[r].entry.service, "warn">>)]_vars

\* an entry of the unlisted level verbose has been answered with success, written at info
\* and counted under verbose, on the single-log endpoint and in a batch
C15_Witness ==
    \E r, q \in Reqs :
        /\ pc[r] = "done" /\ SingleLog(r) /\ req[r].entry.level = "verbose"
        /\ resp[r] = SuccessLog
        /\ pc[q] = "done" /\ req[q].route = "batch" /\ resp[q].code = 200
        /\ \E i \in 1..Len(req[q].entries) : req[q].entries[i].level = "verbose"
        /\ Val(sink, <<"svc", "info">>) >= 2
        /\ Val(LogsProcessed, <<"svc", "verbose">>) >= 2
        /\ Val(LogsProcessed, <<"svc", "info">>) = 0

\* the positions of a goroutine inside LogHandler, LogBatchHandler or MetricsHandler
InIngestHandler(r) ==
    \/ pc[r] \in {"l_log", "l_processed", "b_log", "b_count"}
    \/ pc[r] \in {"m_lock", "m_update"} /\ req[r].route = "metric"
\* the positions of a goroutine inside HealthCheck or the handler of GET /metrics
InProbeHandler(r) == pc[r] \in {"h_write", "s_gather"}

Ends(r) ==
    /\ pc'[r] = "done"
    /\ \/ pc[r] \notin {"idle", "done"}
       \/ Slot(r) /\ (nMetric' # nMetric \/ nLog' # nLog)

\* the request that ends in slot r is a submission that fails: its body does not decode,
\* its metric_type is unknown, or its label keys are not those of the existing family
FailingSubmission(r) ==
    LET e == req'[r]
    IN  \/ e.route \in {"log", "metric"} /\ e.body = "bad"
        \/ e.route = "batch" /\ AnyFailing(e.entries)
        \/ e.route = "metric" /\ e.body = "ok" /\ e.kind \notin KnownTypes
        \/ /\ e.route = "metric" /\ e.body = "ok" /\ e.kind \in KnownTypes
           /\ e.name \in DOMAIN VecOf(e.kind)
           /\ DOMAIN RecordMetric(e) # KeySet(VecOf(e.kind)[e.name])

\* C17: every submission that fails (malformed payload, unknown metric kind, schema
\* mismatch) is answered with the error envelope {status: "error", error: message} and an
\* error status code; the failure does not terminate the process, and the handler does
\* not end by a panic in place of an answer.
C17_FailuresAnsweredWithEnvelope ==
    [][\A r \in Reqs :
          (Ends(r) /\ FailingSubmission(r))
          => /\ alive'
             /\ ~loc'[r].panicked
             /\ resp'[r].code \in {400, 405, 500}
             /\ DOMAIN resp'[r].body = {"status", "error"}
             /\ resp'[r].body.status = "error"]_vars

\* C18 as stated: recording holds no registry-wide lock: a submission that waits for
\* the lock waits only for a holder that updates the same label-tuple of the same
\* metric, so submissions to different names or label-tuples are never serialized.
C18_NoRegistryWideLock ==
    \A r \in Reqs :
        (pc[r] = "m_lock" /\ mu # 0)
        => /\ req[mu].name = req[r].name
           /\ req[mu].kind = req[r].kind
           /\ loc[mu].labels = loc[r].labels

\* C18 as amended: recording holds the one registry-wide lock Metrics.mu for the whole
\* of every Record* call: the lock is held exactly by the submission that is in its
\* update step, so at most one submission is in its update step at a time, whatever the
\* names and label-tuples.
C18_UpdatesSerialized ==
    /\ Cardinality({r \in Reqs : pc[r] = "m_update"}) <= 1
    /\ \A r \in Reqs : (pc[r] = "m_update") <=> (mu = r)

\* a submission for one name is in its update step while a submission for another name
\* waits for the lock
C18_Witness ==
    \E r, q \in Reqs :
        /\ pc[r] = "m_update"
        /\ pc[q] = "m_lock"
        /\ req[r].name # req[q].name

\* C19: serving GET /metrics leaves the registry unchanged: every family, its kind, its
\* label schema and every recorded value are the same after the scrape as before it;
\* the exposition written is the state of the registry at the scrape; and a request
\* inside the scrape handler holds no lock of the registry.
C19_ScrapeReadsOnly ==
    [][\A r \in Reqs :
          /\ Scrapes(r)
                => /\ UNCHANGED regVars
                   /\ UNCHANGED <<mu, HTTPRequestsInFlight, httpVars, logVars>>
                   /\ resp'[r].code = 200
                   /\ resp'[r].body.families = Exposition
          /\ (pc[r] # "s_gather" /\ pc'[r] = "s_gather") => UNCHANGED <<regVars, mu>>]_vars

\* a scrape has been served between two recorded submissions for x: its exposition shows
\* the value 3 the first left, and the registry now holds the sum of both
C19_Witness ==
    \E r \in Reqs :
        /\ pc[r] = "done" /\ req[r].route = "scrape"
        /\ "x" \in DOMAIN resp[r].body.families
        /\ resp[r].body.families["x"].type = "counter"
        /\ \E t \in DOMAIN resp[r].body.families["x"].samples :
              /\ resp[r].body.families["x"].samples[t] = 3
              /\ CustomCounters["x"].series[t] = 6

\* C20: every accepted log entry whose timestamp is absent or zero, arriving through the
\* single-log endpoint or as an element of a batch, carries the ingestion time when it
\* is handed to LogFromService; an entry with a non-zero timestamp keeps it.
C20_TimestampSetBeforeRouting ==
    \A r \in Reqs :
        /\ pc[r] = "l_log" => loc[r].entry.ts = ParseLogEntry(req[r].entry).ts
        /\ pc[r] = "b_log" => loc[r].entries[loc[r].i].ts = ParseLogEntry(req[r].entries[loc[r].i]).ts

\* C21: recording a metric submission (RecordMetric and the Record* operation it calls)
\* leaves the labels mapping passed by the caller with the keys and values it had
\* before the call.
C21_LabelsLeftAsPassed ==
    \A r \in Reqs :
        (pc[r] = "done" /\ req[r].route \in {"metric", "call"})
        => (req[r].route = "metric" /\ req[r].body = "bad") \/ loc[r].labels = req[r].labels

\* C22: for every entry handled by the single-log endpoint, received is incremented
\* before the sink write, and processed only after the entry's sink write has succeeded:
\* processed is never incremented for an entry that was not written to the sink.
C22_ProcessedOnlyAfterSinkWrite ==
    [][\A r \in Reqs :
          /\ (SingleLog(r) /\ pc[r] = "l_log")
                => Val(LogsReceived, Key(req[r].entry)) >= 1
          /\ (SingleLog(r) /\ pc[r] = "l_processed" /\ pc'[r] = "done")
                => /\ LogsProcessed' = Inc(LogsProcessed, Key(req[r].entry))
                   /\ loc[r].written = 1
                   /\ Val(sink, <<req[r].entry.service, Severity(req[r].entry.level)>>) >= 1]_vars

\* the write of the entry of single-log request r to the sink has failed
SinkWriteFailed(r) == SingleLog(r) /\ loc[r].sinkErr

\* C23: when the sink write of a single-log submission fails, the response is the 500
\* error envelope, the errors counter of (service_name, processing_error) goes up by
\* exactly 1, processed is not incremented, and the process keeps running.
C23_SinkFailureAnswered500 ==
    [][\A r \in Reqs :
          (SinkWriteFailed(r) /\ pc[r] # "done" /\ pc'[r] = "done")
          => /\ resp'[r].code = 500
             /\ resp'[r].body.status = "error"
             /\ LogsErrors' = Inc(LogsErrors, <<req[r].entry.service, "processing_error">>)
             /\ UNCHANGED LogsProcessed
             /\ alive']_vars

\* the slot holds a well-formed submission of a known kind (a counter's value not negative)
WellFormed(r) ==
    /\ req[r].route \in {"metric", "call"}
    /\ req[r].route = "metric" => req[r].body = "ok"
    /\ req[r].kind \in KnownTypes
    /\ req[r].kind = "counter" => req[r].value >= 0

\* the slots r and q have served, at the same time, submissions for one metric name
\* with one kind and one set of label keys (a second slot is taken only while the first is busy)
SameFamily(r, q) ==
    /\ r # q
    /\ pc[r] = "done" /\ pc[q] = "done"
    /\ WellFormed(r) /\ WellFormed(q)
    /\ req[r].route = req[q].route
    /\ req[r].name = req[q].name
    /\ req[r].kind = req[q].kind
    /\ DOMAIN req[r].labels = DOMAIN req[q].labels

\* the sum of the values of the children of a counter family, or the number of
\* observations of the children of a histogram family, over the label-tuples of T
RECURSIVE Total(_, _, _)
Total(kind, series, T) ==
    IF T = {} THEN 0
    ELSE LET t == CHOOSE u \in T : TRUE
         IN  (IF kind = "histogram" THEN series[t].count ELSE series[t]) + Total(kind, series, T \ {t})

\* C24: when two requests concurrently submit the first sample for the same unseen
\* metric name with the same kind and label keys, exactly one family is created and
\* registered for the name and both submissions are recorded in it; neither fails.
C24_ConcurrentFirstSubmissions ==
    \A r, q \in Reqs :
        SameFamily(r, q)
        => /\ ~loc[r].panicked /\ ~loc[q].panicked
           /\ req[r].name \in DOMAIN reg /\ reg[req[r].name] = req[r].kind
           /\ req[r].name \in DOMAIN VecOf(req[r].kind)
           /\ LET fam == VecOf(req[r].kind)[req[r].name]
              IN  CASE req[r].kind = "counter" ->
                          Total("counter", fam.series, DOMAIN fam.series) = req[r].value + req[q].value
                    [] req[r].kind = "gauge" ->
                          \E t \in DOMAIN fam.series : fam.series[t] \in {req[r].value, req[q].value}
                    [] req[r].kind = "histogram" ->
                          Total("histogram", fam.series, DOMAIN fam.series) = 2

\* the response MetricsHandler writes after RecordMetric has returned
SuccessMetric == respondSuccess([status |-> "success", message |-> "Metric recorded successfully"])

\* C25: a well-formed submission of kind counter (value >= 0), gauge or histogram for a
\* metric name not seen before is accepted through POST /api/v1/metrics: the handler
\* answers with the success response and the registry then holds a family of the kind for
\* the name, with the submitted value recorded under the labels plus service_name.
C25_FirstSubmissionAccepted ==
    \A r \in Reqs :
        (nMetric = 1 /\ pc[r] = "done" /\ req[r].route = "metric" /\ WellFormed(r))
        => /\ resp[r] = SuccessMetric
           /\ req[r].name \in DOMAIN reg /\ reg[req[r].name] = req[r].kind
           /\ Exposed(VecOf(req[r].kind), req[r].name, Submitted(req[r]))
                = {UpdateChild(req[r].kind, NewChild(req[r].kind), req[r].value)}

\* C26: in every reachable state, the states in the middle of a single-log or batch-log
\* request included, the processed counter of every (service_name, level) is at most
\* the received counter of that (service_name, level).
C26_ProcessedAtMostReceived ==
    \A k \in DOMAIN LogsProcessed : LogsProcessed[k] <= Val(LogsReceived, k)

\* a single-log request between its sink write and its processed increment, while a
\* batch of two entries has counted its first entry under the same (service_name, level)
C26_Witness ==
    \E r, q \in Reqs :
        /\ SingleLog(r) /\ pc[r] = "l_processed"
        /\ GoodBatch(q) /\ pc[q] = "b_count"
        /\ Len(req[q].entries) = 2 /\ loc[q].counted = 1
        /\ Key(req[q].entries[1]) = Key(req[r].entry)
        /\ Val(LogsProcessed, Key(req[r].entry)) = 1
        /\ Val(LogsReceived, Key(req[r].entry)) = 2

\* C27: when the single-log endpoint receives a body that fails to parse, the handler
\* answers 400 with the error envelope, increments the errors counter of the error kind
\* parse_error exactly once, leaves received and processed unchanged, and returns
\* without panicking.
C27_ParseFailureCounted ==
    [][\A r \in Reqs :
          (Ends(r) /\ req'[r].route = "log" /\ req'[r].body = "bad")
          => /\ resp'[r].code = 400
             /\ resp'[r].body.status = "error"
             /\ \E k \in DOMAIN LogsErrors' :
                   /\ k[2] = "parse_error"
                   /\ LogsErrors' = Inc(LogsErrors, k)
             /\ UNCHANGED <<LogsReceived, LogsProcessed>>
             /\ ~loc'[r].panicked]_vars

\* C28: when a batch-log request has ended, with any outcome, the number of its entries
\* written to the log sink equals the number of its entries counted in received and in
\* processed: no batch leaves entries sinked but uncounted, or counted but not sinked.
C28_BatchSinkedEqualsCounted ==
    \A r \in Reqs :
        (pc[r] = "done" /\ req[r].route = "batch") => loc[r].written = loc[r].counted

\* the endpoint label the handler of a route passes to recordHTTPMetrics
Endpoint(route) ==
    CASE route = "log" -> "/api/v1/logs"
      [] route = "batch" -> "/api/v1/logs/batch"
      [] route = "metric" -> "/api/v1/metrics"

\* C29: every request that enters the single-log, batch-log or metric handler increments
\* the request counter of its method and route exactly once by the time the handler has
\* ended, on every exit path, with the status label of the response that was sent.
C29_RequestCountedOnEveryExit ==
    [][\A r \in Reqs :
          /\ (Ends(r) /\ req'[r].route \in {"log", "batch", "metric"})
                => /\ resp'[r].code \in {200, 400, 405, 500}
                   /\ HTTPRequestsTotal' =
                        Inc(HTTPRequestsTotal, <<"POST", Endpoint(req'[r].route), StatusText(resp'[r].code)>>)
          /\ (\A q \in Reqs : ~Ends(q)) => UNCHANGED HTTPRequestsTotal]_vars

\* the slot holds a call of a package function that has returned
HasReturned(r) == pc[r] = "done" /\ req[r].route \in SingletonFns

\* C30: the metrics registry is a process-wide singleton: for any interleaving of
\* InitMetrics, GetMetrics and GetRegistry calls, concurrent first calls included, exactly
\* one registry and one Metrics instance are created, every call returns that same
\* instance, and the built-in metrics are registered exactly once.
C30_OneRegistryOneMetrics ==
    /\ singleton.registries <= 1 /\ singleton.instances <= 1 /\ singleton.builtins <= 1
    /\ singleton.once = "done"
          => /\ singleton.registries = 1 /\ singleton.instances = 1 /\ singleton.builtins = 1
             /\ singleton.reg = 1 /\ singleton.metrics = 1
    /\ \A r \in Reqs :
          HasReturned(r)
          => /\ resp[r].body.ptr = 1
             /\ resp[r].body.ptr = IF req[r].route = "GetRegistry" THEN singleton.reg ELSE singleton.metrics

\* the first two calls, an InitMetrics and a GetMetrics, were made at the same time, the
\* GetMetrics went through once.Do as well, and both have returned the one instance
C30_Witness ==
    \E r, q \in Reqs :
        /\ r # q /\ singleton.calls = 2
        /\ HasReturned(r) /\ req[r].route = "InitMetrics"
        /\ HasReturned(q) /\ req[q].route = "GetMetrics"
        /\ resp[r].body.ptr = resp[q].body.ptr
        /\ singleton.instances = 1

====
